---- MODULE Spec2Model ----
\* Bearer-token authentication resolver (src/src/auth/validate.rs):
\* get_user_from_headers, get_user_record_from_bearer_token and
\* check_is_moderator_from_headers, run by requests against a session store,
\* a user store, the GitHub provider adapter and the session touch queue.
\* Every .await of the source is one step of a request.  Under Spec the
\* requests are resolved one after the other: a resolution reads the stores,
\* which it never writes, and writes the queue, which it never reads.
EXTENDS Integers, Sequences, FiniteSets, TLC

\* ---------------------------------------------------------------- bounds
MaxTime == 2
MaxSuffixLen == 2

\* ------------------------------------------------------ options, results
None == [some |-> FALSE]
Some(v) == [some |-> TRUE, val |-> v]
Ok(v) == [ok |-> TRUE, val |-> v]
Err(e) == [ok |-> FALSE, err |-> e]

InvalidAuthMethod == "InvalidAuthMethod"
InvalidCredentials == "InvalidCredentials"

\* ------------------------------------------------- header values (bytes)
\* A header value is a sequence of bytes; text is a sequence of ASCII codes.
Underscore == 95
MRA == <<109, 114, 97>>
GITHUB == <<103, 105, 116, 104, 117, 98>>
GHO == <<103, 104, 111>>
GHP == <<103, 104, 112>>

SeqsUpTo(S, n) == UNION {[1..k -> S] : k \in 0..n}

\* what precedes the suffix in the header values the requests carry: the four
\* registered prefixes, near misses ("mr", "gh", "MRA", ""), and values
\* holding a byte that is not visible ASCII.
PrefixCandidates ==
    {MRA, GITHUB, GHO, GHP, <<109, 114>>, <<103, 104>>, <<77, 82, 65>>, <<>>,
     <<255>>, MRA \o <<Underscore, 255>>}
SuffixChars == {Underscore, 97}
Suffixes == SeqsUpTo(SuffixChars, MaxSuffixLen)
HeaderValues == {p \o s : p \in PrefixCandidates, s \in Suffixes}
Headers == {None} \cup {Some(h) : h \in HeaderValues}

\* HeaderValue::to_str: Ok(text) iff every byte is visible ASCII or a tab
IsVisibleAscii(b) == (b >= 32 /\ b < 127) \/ b = 9
to_str(h) ==
    IF \A i \in 1..Len(h) : IsVisibleAscii(h[i]) THEN Ok(h)
    ELSE Err("ToStrError")

\* HeaderToken with the two error kinds of lines 27 and 29 exchanged
HeaderToken_KindsSwapped(header) ==
    IF ~header.some THEN Err(InvalidCredentials)
    ELSE IF ~to_str(header.val).ok THEN Err(InvalidAuthMethod)
    ELSE Ok(to_str(header.val).val)

\* lines 21-29: the token handed to get_user_record_from_bearer_token
HeaderToken(header) ==
    IF ~header.some THEN Err(InvalidAuthMethod)
    ELSE IF ~to_str(header.val).ok THEN Err(InvalidCredentials)
    ELSE Ok(to_str(header.val).val)

\* str::split_once: split at the first occurrence of the delimiter
split_once(s, d) ==
    IF \E i \in 1..Len(s) : s[i] = d
    THEN LET i == CHOOSE k \in 1..Len(s) :
                      s[k] = d /\ \A j \in 1..(k - 1) : s[j] # d
         IN  Some(<<SubSeq(s, 1, i - 1), SubSeq(s, i + 1, Len(s))>>)
    ELSE None

\* Scheme matching with starts_with instead of split_once
Scheme_StartsWith(token) ==
    LET starts(p) == Len(token) >= Len(p) /\ SubSeq(token, 1, Len(p)) = p
    IN  IF starts(MRA) THEN "session"
        ELSE IF starts(GITHUB) \/ starts(GHO) \/ starts(GHP) THEN "github"
        ELSE "invalid"

\* Scheme with the prefix gho missing from the arm of line 92
Scheme_WithoutGho(token) ==
    LET sp == split_once(token, Underscore)
    IN  IF ~sp.some THEN "invalid"
        ELSE IF sp.val[1] = MRA THEN "session"
        ELSE IF sp.val[1] \in {GITHUB, GHP} THEN "github"
        ELSE "invalid"

\* the match of line 73: which arm a token takes
Scheme(token) ==
    LET sp == split_once(token, Underscore)
    IN  IF ~sp.some THEN "invalid"
        ELSE IF sp.val[1] = MRA THEN "session"
        ELSE IF sp.val[1] \in {GITHUB, GHO, GHP} THEN "github"
        ELSE "invalid"

\* ------------------------------------------------------------ the stores
Reqs == {"r1", "r2"}
UserIds == {"u1", "u2", "u4"}
RemoteIds == {"42", "43", "7", "9"}
RoleStrings == {"developer", "moderator", "admin"}
Metadata == {"ua1", "ua2"}

Texts == {h \in HeaderValues : to_str(h).ok}
SessionTokens == {t \in Texts : Scheme(t) = "session"}

\* a row of the users table
UserRecord(id, role, gh) ==
    [id |-> id, github_id |-> gh, username |-> id, role |-> role, balance |-> 0]

\* the sessions issued by the login flow: token -> session
IssuedSessions ==
    (MRA \o <<Underscore, 97>>) :> [id |-> "s1", user_id |-> "u1", expires |-> 1]
    @@ (MRA \o <<Underscore, Underscore>>) :> [id |-> "s2", user_id |-> "u4", expires |-> 1]
SessionIds == {IssuedSessions[t].id : t \in DOMAIN IssuedSessions}

\* the links made by the onboarding flow: GitHub user id -> local user id;
\* "7" is not linked, "9" is linked to a user whose row is gone
LinkTable ==
    [g \in RemoteIds |->
        IF g = "42" THEN Some("u1") ELSE IF g = "43" THEN Some("u2")
        ELSE IF g = "9" THEN Some("u4") ELSE None]

\* Role::from_string and Role::is_mod
Role_from_string(s) ==
    IF s = "admin" THEN "Admin" ELSE IF s = "moderator" THEN "Moderator" ELSE "Developer"
is_mod(role) == role \in {"Moderator", "Admin"}

\* the kinds the `?` of lines 78, 85, 94 and 101 (a store call failed), of
\* line 87 (no metadata) and of line 93 (the adapter rejected) return
StoreError == InvalidCredentials
MetadataError == InvalidCredentials
ProviderError == InvalidCredentials

\* lines 37-59: the User built from a users row
MakeUser(db_user) ==
    [id |-> db_user.id,
     github_id |-> db_user.github_id,
     username |-> db_user.username,
     role |-> Role_from_string(db_user.role),
     payout_data |-> Some([balance |-> db_user.balance])]

\* BuildResult with the error kind of line 27 at line 35
BuildResult_WrongKind(db_user) ==
    IF ~db_user.some THEN Err(InvalidAuthMethod) ELSE Ok(MakeUser(db_user.val))

\* lines 35-60: Option<db user> to the result of get_user_from_headers
BuildResult(db_user) ==
    IF ~db_user.some THEN Err(InvalidCredentials) ELSE Ok(MakeUser(db_user.val))

\* the expiry test with the comparison reversed
Expired_Reversed(session, t) == session.expires > t

\* line 81: the expiry test
Expired(session, t) == session.expires < t

\* ------------------------------------------------------------- the state
VARIABLES
    now,        \* Utc::now()
    sessions,   \* session store: token -> Option<Session>
    users,      \* user store: user id -> Option<user row>
    links,      \* GitHub remote id -> Option<local user id>
    queue,      \* SessionQueue: session id -> Option<metadata>
    task        \* per request: position and locals of its resolution

vars == <<now, sessions, users, links, queue, task>>

IdleTask ==
    [pc |-> "idle", header |-> None, token |-> <<>>, session |-> None,
     now_read |-> None, user |-> None, verify |-> None, local_id |-> None,
     metadata |-> None, calls |-> <<>>, failed |-> FALSE, result |-> None,
     gate |-> None, api_error |-> None, response |-> None]

Init ==
    /\ now = 0
    /\ sessions = [t \in SessionTokens |-> IF t \in DOMAIN IssuedSessions
                                           THEN Some(IssuedSessions[t]) ELSE None]
    /\ \E r1 \in RoleStrings, r2 \in RoleStrings :
          users = [u \in UserIds |->
                     IF u = "u1" THEN Some(UserRecord("u1", r1, Some("42")))
                     ELSE IF u = "u2" THEN Some(UserRecord("u2", r2, Some("43")))
                     ELSE None]
    /\ links = LinkTable
    /\ queue = [s \in SessionIds |-> None]
    /\ task = [r \in Reqs |-> IdleTask]

\* the resolution of request r returns res to its caller
Return(r, t, res) == task' = [task EXCEPT ![r] = [t EXCEPT !.pc = "returned", !.result = Some(res)]]
Call(t, name) == [t EXCEPT !.calls = Append(@, name)]
\* a store call of request r failed: `?` returns the error
Fail(r, t) == Return(r, [t EXCEPT !.failed = TRUE], Err(StoreError))

\* lines 11-35, 73, 103: header extraction and the dispatch on the prefix,
\* up to the first .await
get_user_from_headers(r, header) ==
    /\ task[r].pc = "idle"
    /\ LET t == [task[r] EXCEPT !.header = header]
           tok == HeaderToken(header)
       IN  IF ~tok.ok THEN Return(r, t, Err(tok.err))
           ELSE IF Scheme(tok.val) = "session"
           THEN task' = [task EXCEPT ![r] = [t EXCEPT !.pc = "session_get", !.token = tok.val]]
           ELSE IF Scheme(tok.val) = "github"
           THEN task' = [task EXCEPT ![r] = [t EXCEPT !.pc = "gh_get_user", !.token = tok.val]]
           ELSE Return(r, [t EXCEPT !.token = tok.val], Err(InvalidAuthMethod))
    /\ UNCHANGED <<now, sessions, users, links, queue>>

\* session_get with the error kind of line 103 at line 79
session_get_AbsentAsMethod(r, fails) ==
    /\ task[r].pc = "session_get"
    /\ LET t == Call(task[r], "Session::get")
           s == sessions[task[r].token]
       IN  IF fails THEN Fail(r, t)
           ELSE IF ~s.some THEN Return(r, t, Err(InvalidAuthMethod))
           ELSE LET t2 == [t EXCEPT !.session = s, !.now_read = Some(now)]
                IN  IF Expired(s.val, now) THEN Return(r, t2, Err(InvalidCredentials))
                    ELSE task' = [task EXCEPT ![r] = [t2 EXCEPT !.pc = "user_get"]]
    /\ UNCHANGED <<now, sessions, users, links, queue>>

\* lines 76-83: Session::get(token).await? then the expiry test
session_get(r, fails) ==
    /\ task[r].pc = "session_get"
    /\ LET t == Call(task[r], "Session::get")
           s == sessions[task[r].token]
       IN  IF fails THEN Fail(r, t)
           ELSE IF ~s.some THEN Return(r, t, Err(InvalidCredentials))
           ELSE LET t2 == [t EXCEPT !.session = s, !.now_read = Some(now)]
                IN  IF Expired(s.val, now) THEN Return(r, t2, Err(InvalidCredentials))
                    ELSE task' = [task EXCEPT ![r] = [t2 EXCEPT !.pc = "user_get"]]
    /\ UNCHANGED <<now, sessions, users, links, queue>>

\* line 85: User::get_id(session.user_id).await?
session_user_get(r, fails) ==
    /\ task[r].pc = "user_get"
    /\ LET t == Call(task[r], "User::get_id")
       IN  IF fails THEN Fail(r, t)
           ELSE task' = [task EXCEPT ![r] =
                    [t EXCEPT !.pc = "metadata", !.user = users[task[r].session.val.user_id]]]
    /\ UNCHANGED <<now, sessions, users, links, queue>>

\* line 87: get_session_metadata(req).await?
session_metadata(r, outcome) ==
    /\ task[r].pc = "metadata"
    /\ LET t == Call(task[r], "get_session_metadata")
       IN  IF ~outcome.some THEN Return(r, t, Err(MetadataError))
           ELSE task' = [task EXCEPT ![r] = [t EXCEPT !.pc = "queue_add", !.metadata = outcome]]
    /\ UNCHANGED <<now, sessions, users, links, queue>>

\* SessionQueue::add: touches of one session coalesce, the last one wins
queue_add(q, id, metadata) == [q EXCEPT ![id] = Some(metadata)]

\* lines 88-90, 105, 34-60: session_queue.add(..).await, then the result
session_touch(r) ==
    /\ task[r].pc = "queue_add"
    /\ queue' = queue_add(queue, task[r].session.val.id, task[r].metadata.val)
    /\ Return(r, Call(task[r], "SessionQueue::add"), BuildResult(task[r].user))
    /\ UNCHANGED <<now, sessions, users, links>>

\* github_get_user carrying on with an empty profile when the adapter rejects
github_get_user_IgnoresRejection(r, outcome) ==
    /\ task[r].pc = "gh_get_user"
    /\ task' = [task EXCEPT ![r] =
            [Call(task[r], "GitHub::get_user") EXCEPT
                !.pc = "gh_get_user_id",
                !.verify = IF outcome.some THEN Some(outcome) ELSE Some(None)]]
    /\ UNCHANGED <<now, sessions, users, links, queue>>

\* line 93: AuthProvider::GitHub.get_user(token).await?; the adapter answers
\* with the remote user's id or rejects the token
github_get_user(r, outcome) ==
    /\ task[r].pc = "gh_get_user"
    /\ LET t == [Call(task[r], "GitHub::get_user") EXCEPT !.verify = Some(outcome)]
       IN  IF ~outcome.some THEN Return(r, t, Err(ProviderError))
           ELSE task' = [task EXCEPT ![r] = [t EXCEPT !.pc = "gh_get_user_id"]]
    /\ UNCHANGED <<now, sessions, users, links, queue>>

\* github_get_user_id falling back to the first user when no link exists
github_get_user_id_DefaultsUser(r, fails) ==
    /\ task[r].pc = "gh_get_user_id"
    /\ LET t == Call(task[r], "GitHub::get_user_id")
           id == links[task[r].verify.val.val]
       IN  IF fails THEN Fail(r, t)
           ELSE task' = [task EXCEPT ![r] =
                    [t EXCEPT !.pc = "gh_user_get",
                              !.local_id = IF id.some THEN id ELSE Some("u1")]]
    /\ UNCHANGED <<now, sessions, users, links, queue>>

\* lines 94, 97: AuthProvider::GitHub.get_user_id(&user.id).await?, id.ok_or_else
github_get_user_id(r, fails) ==
    /\ task[r].pc = "gh_get_user_id"
    /\ LET t == Call(task[r], "GitHub::get_user_id")
           id == IF task[r].verify.val.some THEN links[task[r].verify.val.val] ELSE None
       IN  IF fails THEN Fail(r, t)
           ELSE IF ~id.some THEN Return(r, t, Err(InvalidCredentials))
           ELSE task' = [task EXCEPT ![r] = [t EXCEPT !.pc = "gh_user_get", !.local_id = id]]
    /\ UNCHANGED <<now, sessions, users, links, queue>>

\* github_user_get building the User without the payout data
github_user_get_NoPayout(r, fails) ==
    /\ task[r].pc = "gh_user_get"
    /\ LET t == Call(task[r], "User::get_id")
           u == users[task[r].local_id.val]
       IN  IF fails THEN Fail(r, t)
           ELSE IF ~u.some THEN Return(r, [t EXCEPT !.user = u], Err(InvalidCredentials))
           ELSE Return(r, [t EXCEPT !.user = u],
                       Ok([MakeUser(u.val) EXCEPT !.payout_data = None]))
    /\ UNCHANGED <<now, sessions, users, links, queue>>

\* lines 96-101, 105, 34-60: User::get_id(id).await?, then the result
github_user_get(r, fails) ==
    /\ task[r].pc = "gh_user_get"
    /\ LET t == Call(task[r], "User::get_id")
           u == users[task[r].local_id.val]
       IN  IF fails THEN Fail(r, t)
           ELSE Return(r, [t EXCEPT !.user = u], BuildResult(u))
    /\ UNCHANGED <<now, sessions, users, links, queue>>

\* the gate testing for admin instead of moderator-or-above
check_is_moderator_from_headers_AdminOnly(r) ==
    /\ task[r].pc = "returned"
    /\ LET res == task[r].result.val
           out == IF ~res.ok THEN res
                  ELSE IF res.val.role = "Admin" THEN Ok(res.val)
                  ELSE Err(InvalidCredentials)
       IN  task' = [task EXCEPT ![r] = [@ EXCEPT !.pc = "gated", !.gate = Some(out)]]
    /\ UNCHANGED <<now, sessions, users, links, queue>>

\* lines 117-123: the moderator gate over the resolution's result
check_is_moderator_from_headers(r) ==
    /\ task[r].pc = "returned"
    /\ LET res == task[r].result.val
           out == IF ~res.ok THEN res
                  ELSE IF is_mod(res.val.role) THEN Ok(res.val)
                  ELSE Err(InvalidCredentials)
       IN  task' = [task EXCEPT ![r] = [@ EXCEPT !.pc = "gated", !.gate = Some(out)]]
    /\ UNCHANGED <<now, sessions, users, links, queue>>

\* ------------------------------------------------ src/src/routes/mod.rs
\* lines 34-75: the variants of ApiError
ApiErrorVariants ==
    {"Env", "FileHosting", "Database", "SqlxDatabase", "Xml", "Json",
     "Authentication", "CustomAuthentication", "InvalidInput", "Validation",
     "Search", "Indexing", "Analytics", "Payments", "Discord", "Turnstile",
     "Decoding", "ImageParse", "PasswordHashing", "PasswordStrengthCheck"}
ApiError(variant, inner) == [variant |-> variant, inner |-> inner]

\* status_code answering 403 Forbidden for the two authentication variants
status_code_Forbidden(e) ==
    IF e.variant \in {"Env", "Database", "SqlxDatabase", "Xml", "Search", "Indexing",
                      "FileHosting", "PasswordHashing"} THEN 500
    ELSE IF e.variant \in {"Authentication", "CustomAuthentication"} THEN 403
    ELSE IF e.variant \in {"Analytics", "Payments", "Discord"} THEN 424
    ELSE 400

\* lines 78-101: ResponseError::status_code
status_code(e) ==
    IF e.variant \in {"Env", "Database", "SqlxDatabase", "Xml", "Search", "Indexing",
                      "FileHosting", "PasswordHashing"} THEN 500
    ELSE IF e.variant \in {"Authentication", "CustomAuthentication"} THEN 401
    ELSE IF e.variant \in {"Analytics", "Payments", "Discord"} THEN 424
    ELSE 400

\* lines 105-126: the machine code of the error envelope
error_code(e) ==
    CASE e.variant = "Env" -> "environment_error"
      [] e.variant \in {"SqlxDatabase", "Database"} -> "database_error"
      [] e.variant \in {"Authentication", "CustomAuthentication"} -> "unauthorized"
      [] e.variant = "Xml" -> "xml_error"
      [] e.variant = "Json" -> "json_error"
      [] e.variant = "Search" -> "search_error"
      [] e.variant = "Indexing" -> "indexing_error"
      [] e.variant = "FileHosting" -> "file_hosting_error"
      [] e.variant \in {"InvalidInput", "Validation"} -> "invalid_input"
      [] e.variant = "Analytics" -> "analytics_error"
      [] e.variant = "Payments" -> "payments_error"
      [] e.variant = "Discord" -> "discord_error"
      [] e.variant = "Turnstile" -> "turnstile_error"
      [] e.variant = "Decoding" -> "decoding_error"
      [] e.variant = "ImageParse" -> "invalid_image"
      [] e.variant = "PasswordHashing" -> "password_hashing_error"
      [] e.variant = "PasswordStrengthCheck" -> "strength_check_error"

\* the outcome the route got from the resolver or from the gate
Outcome(r) == IF task[r].pc = "gated" THEN task[r].gate.val ELSE task[r].result.val

\* lines 47-48, 103-129: the route ends with an ApiError, which is rendered.
\* An authentication failure becomes ApiError::Authentication through `?`;
\* after a successful resolution the route may fail with variant v.
error_response(r, v) ==
    /\ task[r].pc \in {"returned", "gated"}
    /\ LET e == IF ~Outcome(r).ok THEN ApiError("Authentication", Outcome(r).err)
                ELSE ApiError(v, "")
       IN  task' = [task EXCEPT ![r] =
                [@ EXCEPT !.pc = "responded",
                          !.api_error = Some(e),
                          !.response = Some([status |-> status_code(e),
                                             error |-> error_code(e)])]]
    /\ UNCHANGED <<now, sessions, users, links, queue>>

\* the request is answered; its task ends
Respond(r) ==
    /\ task[r].pc \in {"returned", "gated", "responded"}
    /\ task' = [task EXCEPT ![r] = IdleTask]
    /\ UNCHANGED <<now, sessions, users, links, queue>>

\* time passes
Tick ==
    /\ now < MaxTime
    /\ now' = now + 1
    /\ UNCHANGED <<sessions, users, links, queue, task>>

\* the queue's consumer takes the coalesced touches
Drain ==
    /\ \E s \in SessionIds : queue[s].some
    /\ queue' = [s \in SessionIds |-> None]
    /\ UNCHANGED <<now, sessions, users, links, task>>

\* a request arrives while no other resolution is in flight
Arrive(r, header) ==
    /\ \A q \in Reqs : task[q].pc = "idle"
    /\ get_user_from_headers(r, header)

Next ==
    \/ \E r \in Reqs, h \in Headers : Arrive(r, h)
    \/ \E r \in Reqs, f \in BOOLEAN : session_get(r, f)
    \/ \E r \in Reqs, f \in BOOLEAN : session_user_get(r, f)
    \/ \E r \in Reqs, m \in {None} \cup {Some(x) : x \in Metadata} : session_metadata(r, m)
    \/ \E r \in Reqs : session_touch(r)
    \/ \E r \in Reqs, g \in {None} \cup {Some(x) : x \in RemoteIds} : github_get_user(r, g)
    \/ \E r \in Reqs, f \in BOOLEAN : github_get_user_id(r, f)
    \/ \E r \in Reqs, f \in BOOLEAN : github_user_get(r, f)
    \/ \E r \in Reqs : check_is_moderator_from_headers(r)
    \/ \E r \in Reqs : Respond(r)
    \/ Tick
    \/ Drain

Spec == Init /\ [][Next]_vars

\* ------------------------------------------ successive resolutions
\* A request arrives once the resolutions before it have returned; a returned
\* resolution keeps its result until it is answered, so that the results of
\* successive resolutions stand side by side.  The requests carry the token of
\* session s1 or a GitHub token; both can resolve to user u1.
SuccHeaders == {Some(MRA \o <<Underscore, 97>>), Some(GHO \o <<Underscore, 97>>)}

ArriveAfter(r, header) ==
    /\ \A q \in Reqs \ {r} : task[q].pc \in {"idle", "returned"}
    /\ get_user_from_headers(r, header)

\* a step of an arrived request, whichever branch it is in
Step(r) ==
    \/ \E f \in BOOLEAN : session_get(r, f)
    \/ \E f \in BOOLEAN : session_user_get(r, f)
    \/ \E m \in {None} \cup {Some(x) : x \in Metadata} : session_metadata(r, m)
    \/ session_touch(r)
    \/ \E g \in {None} \cup {Some(x) : x \in RemoteIds} : github_get_user(r, g)
    \/ \E f \in BOOLEAN : github_get_user_id(r, f)
    \/ \E f \in BOOLEAN : github_user_get(r, f)
    \/ Respond(r)

\* a step of r while every other request is idle or has returned
StepAfter(r) ==
    /\ \A q \in Reqs \ {r} : task[q].pc \in {"idle", "returned"}
    /\ Step(r)

InitSucc == Init /\ users["u2"].val.role = "developer"

NextSucc ==
    \/ \E r \in Reqs, h \in SuccHeaders : ArriveAfter(r, h)
    \/ \E r \in Reqs : StepAfter(r)
    \/ Tick
    \/ Drain

SpecSucc == InitSucc /\ [][NextSucc]_vars

\* ------------------------------------------ concurrent resolutions
\* Requests carrying the token of session s1 or s2 arrive at any time and
\* their steps interleave freely.
ConcHeaders == {Some(t) : t \in DOMAIN IssuedSessions}

StepSession(r) ==
    \/ \E f \in BOOLEAN : session_get(r, f)
    \/ \E f \in BOOLEAN : session_user_get(r, f)
    \/ \E m \in {None} \cup {Some(x) : x \in Metadata} : session_metadata(r, m)
    \/ session_touch(r)
    \/ Respond(r)

NextConc ==
    \/ \E r \in Reqs, h \in ConcHeaders : get_user_from_headers(r, h)
    \/ \E r \in Reqs : StepSession(r)
    \/ Tick
    \/ Drain

SpecConc == InitSucc /\ [][NextConc]_vars

\* ------------------------------------------ the route boundary
\* Requests without a header, with an undecodable header, with the token of
\* session s1 or s2 or with a GitHub token are resolved one after the other,
\* pass the gate or not, and the route's error is rendered.
RenderHeaders ==
    {None, Some(<<255>>), Some(GHP \o <<Underscore>>)} \cup ConcHeaders

NextRender ==
    \/ \E r \in Reqs, h \in RenderHeaders : Arrive(r, h)
    \/ \E r \in Reqs : Step(r)
    \/ \E r \in Reqs : check_is_moderator_from_headers(r)
    \/ \E r \in Reqs, v \in ApiErrorVariants : error_response(r, v)
    \/ Tick
    \/ Drain

SpecRender == InitSucc /\ [][NextRender]_vars

TypeOK ==
    /\ now \in 0..MaxTime
    /\ \A r \in Reqs : task[r].pc \in
         {"idle", "session_get", "user_get", "metadata", "queue_add",
          "gh_get_user", "gh_get_user_id", "gh_user_get", "returned", "gated",
          "responded"}
\* ---------------------------------------------------------------- claims
Returned(r) == task[r].pc \in {"returned", "gated"}
Res(r) == task[r].result.val
Called(r, name) == \E i \in 1..Len(task[r].calls) : task[r].calls[i] = name
CallCount(r, name) == Cardinality({i \in 1..Len(task[r].calls) : task[r].calls[i] = name})
RegisteredPrefixes == {MRA, GITHUB, GHO, GHP}
\* text begins with prefix p followed by the delimiter
BeginsWith(text, p) ==
    /\ Len(text) > Len(p)
    /\ \A i \in 1..Len(p) : text[i] = p[i]
    /\ text[Len(p) + 1] = Underscore
IsText(h) == \A i \in 1..Len(h) : h[i] \in (32..126) \cup {9}

\* C1: a request without an Authorization header gets Err(InvalidAuthMethod)
\* and no store, provider, metadata or queue call was made for it.
C1_NoHeader ==
    \A r \in Reqs :
        (Returned(r) /\ ~task[r].header.some)
            => (Res(r) = Err(InvalidAuthMethod) /\ task[r].calls = <<>>)
C1_Witness == \E r \in Reqs : task[r].pc = "returned" /\ ~task[r].header.some

\* C2: a text credential whose segment before the first '_' is not mra,
\* github, gho or ghp (or that has no '_') gets Err(InvalidAuthMethod), and
\* no store, provider or queue call was made for it.
C2_UnknownPrefix ==
    \A r \in Reqs :
        (/\ Returned(r)
         /\ task[r].header.some
         /\ IsText(task[r].header.val)
         /\ \A p \in RegisteredPrefixes : ~BeginsWith(task[r].header.val, p))
            => (Res(r) = Err(InvalidAuthMethod) /\ task[r].calls = <<>>)
C2_Witness ==
    /\ \E r \in Reqs : task[r].pc = "returned" /\ task[r].header = Some(MRA)
    /\ queue = [s \in SessionIds |-> None]

\* C3 (as claimed): a found session with expires <= now, the boundary
\* expires = now included, is rejected with Err(InvalidCredentials).
C3_ExpiresAtOrBeforeNowRejected ==
    \A r \in Reqs :
        (/\ Returned(r)
         /\ task[r].session.some
         /\ task[r].session.val.expires <= task[r].now_read.val)
            => Res(r) = Err(InvalidCredentials)

\* C4: a found session with expires in the past gets Err(InvalidCredentials),
\* the kind a token gets for which the store answers that it holds no
\* session; no User is returned and the user store is not consulted.
C4_ExpiredSession ==
    \A r \in Reqs :
        /\ (/\ Returned(r)
            /\ task[r].session.some
            /\ task[r].session.val.expires < task[r].now_read.val)
              => (/\ Res(r) = Err(InvalidCredentials)
                  /\ task[r].calls = <<"Session::get">>)
        /\ (/\ Returned(r)
            /\ BeginsWith(task[r].token, MRA)
            /\ ~sessions[task[r].token].some
            /\ ~task[r].failed)
              => (/\ Res(r) = Err(InvalidCredentials)
                  /\ task[r].calls = <<"Session::get">>)
C4_Witness ==
    \E r \in Reqs :
        /\ task[r].pc = "returned"
        /\ task[r].session.some
        /\ task[r].session.val.expires < task[r].now_read.val
\* the session branch got as far as a found session that is unexpired in the
\* sense of the specification (expires strictly after the time read)
ValidSession(r) ==
    /\ task[r].session.some
    /\ task[r].session.val.expires > task[r].now_read.val

\* C5 (as claimed): a valid session whose user row exists resolves to
\* Ok(User) with the session's user id and exactly one touch for its id.
C5_ValidSessionResolvesAndTouchesOnce ==
    \A r \in Reqs :
        (Returned(r) /\ ValidSession(r) /\ task[r].user.some)
            => (/\ Res(r).ok
                /\ Res(r).val.id = task[r].session.val.user_id
                /\ CallCount(r, "SessionQueue::add") = 1)

\* C6 (as claimed): whatever get_session_metadata and the enqueue do, a
\* resolution that reached them with the user's row in hand returns Ok(User).
C6_TouchNeverFailsResolution ==
    \A r \in Reqs :
        (Returned(r) /\ Called(r, "get_session_metadata") /\ task[r].user.some)
            => Res(r) = Ok(MakeUser(task[r].user.val))

\* C7: a found, unexpired session whose user id has no row in the user
\* store never gets a User, and gets Err(InvalidCredentials) whenever the
\* user store answered.
C7_DanglingSession ==
    \A r \in Reqs :
        (Returned(r) /\ ValidSession(r) /\ ~users[task[r].session.val.user_id].some)
            => (/\ ~Res(r).ok
                /\ ~task[r].failed => Res(r) = Err(InvalidCredentials))
C7_Witness ==
    \E r \in Reqs :
        /\ task[r].pc = "returned"
        /\ ValidSession(r)
        /\ ~users[task[r].session.val.user_id].some
        /\ ~task[r].failed
        /\ Called(r, "SessionQueue::add")

\* C8: a provider token the adapter rejects gets Err(InvalidCredentials) and
\* neither the link lookup nor the user lookup is made after the rejection.
C8_ProviderRejects ==
    \A r \in Reqs :
        (task[r].verify = Some(None))
            => (/\ task[r].calls = <<"GitHub::get_user">>
                /\ Returned(r)
                /\ Res(r) = Err(InvalidCredentials))
C8_Witness ==
    \E r \in Reqs :
        /\ task[r].pc = "returned"
        /\ task[r].verify = Some(None)
        /\ BeginsWith(task[r].token, GHO)

\* C9: a provider token that verifies to a remote id without a link never
\* gets a User and gets Err(InvalidCredentials) whenever the link lookup
\* answered; the user store is not consulted and the link table is left as
\* it was.
C9_NoLink ==
    \A r \in Reqs :
        (/\ Returned(r)
         /\ task[r].verify.some
         /\ task[r].verify.val.some
         /\ ~LinkTable[task[r].verify.val.val].some)
            => (/\ ~Res(r).ok
                /\ ~task[r].failed => Res(r) = Err(InvalidCredentials)
                /\ ~Called(r, "User::get_id")
                /\ links = LinkTable)
C9_Witness ==
    \E r \in Reqs :
        /\ task[r].pc = "returned"
        /\ ~task[r].failed
        /\ task[r].verify = Some(Some("7"))
        /\ task[r].calls = <<"GitHub::get_user", "GitHub::get_user_id">>

\* the order of roles: developer < moderator < admin
RoleRank == [Developer |-> 0, Moderator |-> 1, Admin |-> 2]

\* C10: the moderator gate turns a User below moderator into
\* Err(InvalidCredentials), returns a User at or above moderator unchanged,
\* and passes a failed resolution's error through.
C10_ModeratorGate ==
    \A r \in Reqs :
        task[r].pc = "gated" =>
            LET res == task[r].result.val
                g == task[r].gate.val
            IN  /\ (res.ok /\ RoleRank[res.val.role] < RoleRank["Moderator"])
                      => g = Err(InvalidCredentials)
                /\ (res.ok /\ RoleRank[res.val.role] >= RoleRank["Moderator"])
                      => g = Ok(res.val)
                /\ ~res.ok => g = res
C10_Witness ==
    \E r \in Reqs :
        /\ task[r].pc = "gated"
        /\ task[r].result.val.ok
        /\ task[r].result.val.val.role = "Moderator"
        /\ task[r].gate.val = Ok(MakeUser(users[task[r].result.val.val.id].val))

\* no header, or a text header that begins with no registered prefix
NoMethod(header) ==
    \/ ~header.some
    \/ /\ IsText(header.val)
       /\ \A p \in RegisteredPrefixes : ~BeginsWith(header.val, p)

\* C11: a failed resolution returns InvalidAuthMethod or InvalidCredentials
\* and nothing else: InvalidAuthMethod exactly when the header is absent or
\* its prefix is unrecognized, InvalidCredentials for every other failure.
C11_ClosedTaxonomy ==
    \A r \in Reqs :
        (Returned(r) /\ ~Res(r).ok)
            => (/\ Res(r).err \in {InvalidAuthMethod, InvalidCredentials}
                /\ Res(r).err = InvalidAuthMethod <=> NoMethod(task[r].header))
C11_Witness ==
    \E r \in Reqs :
        /\ task[r].pc = "returned"
        /\ task[r].header.some
        /\ ~IsText(task[r].header.val)
        /\ BeginsWith(task[r].header.val, MRA)
        /\ Res(r) = Err(InvalidCredentials)

\* r resolved a session token, the stores answered, the session is within its
\* validity window and its user's row exists
ResolvedValid(r) ==
    /\ Returned(r)
    /\ BeginsWith(task[r].token, MRA)
    /\ ~task[r].failed
    /\ ValidSession(r)
    /\ task[r].user.some

\* C12 (as claimed): the stores never change, and the successive resolutions
\* of one valid session token all succeed with the same User, whatever
\* touches the earlier ones enqueued.
C12_Idempotent ==
    /\ sessions = [t \in SessionTokens |-> IF t \in DOMAIN IssuedSessions
                                           THEN Some(IssuedSessions[t]) ELSE None]
    /\ \A r \in Reqs :
          ResolvedValid(r)
              => (/\ Res(r).ok
                  /\ \A q \in Reqs :
                        (ResolvedValid(q) /\ task[q].token = task[r].token)
                            => Res(q) = Res(r))

\* C13: an authentication failure is rendered with status 401 and the code
\* "unauthorized", whichever kind it wraps, and no ApiError is rendered with
\* the code "unauthorized" and another status.
C13_Unauthorized ==
    \A r \in Reqs :
        task[r].pc = "responded" =>
            LET e == task[r].api_error.val
                resp == task[r].response.val
            IN  /\ ~Outcome(r).ok => e = ApiError("Authentication", Outcome(r).err)
                /\ e.variant = "Authentication"
                      => (resp.status = 401 /\ resp.error = "unauthorized")
                /\ resp.error = "unauthorized" => resp.status = 401
C13_Witness ==
    \E r \in Reqs :
        /\ task[r].pc = "responded"
        /\ task[r].api_error.val = ApiError("Authentication", InvalidAuthMethod)
        /\ task[r].response.val = [status |-> 401, error |-> "unauthorized"]

\* C14 (as claimed): the queue changes only when its consumer empties it or
\* when a session-scheme resolution whose session was found and is not
\* expired (expires strictly after the time read) enqueues its touch.
C14_QueueFrame ==
    [][queue' # queue =>
        \/ queue' = [s \in SessionIds |-> None]
        \/ \E r \in Reqs :
              /\ task[r].pc = "queue_add"
              /\ task'[r].pc = "returned"
              /\ BeginsWith(task[r].token, MRA)
              /\ ValidSession(r)
              /\ queue' = [queue EXCEPT ![task[r].session.val.id] = task[r].metadata]]_vars

\* C15 (as claimed): a resolution returns Ok(User) only for a session token
\* with a found, unexpired session owned by that user, or for a provider
\* token verified to a remote id linked to that user; the user's row exists.
C15_Sound ==
    \A r \in Reqs :
        (Returned(r) /\ Res(r).ok) =>
            /\ \/ /\ BeginsWith(task[r].token, MRA)
                  /\ sessions[task[r].token].some
                  /\ sessions[task[r].token].val.expires > task[r].now_read.val
                  /\ Res(r).val.id = sessions[task[r].token].val.user_id
               \/ /\ \E p \in {GITHUB, GHO, GHP} : BeginsWith(task[r].token, p)
                  /\ task[r].verify.some
                  /\ task[r].verify.val.some
                  /\ links[task[r].verify.val.val] = Some(Res(r).val.id)
            /\ users[Res(r).val.id].some

IsProviderToken(t) == \E p \in {GITHUB, GHO, GHP} : BeginsWith(t, p)

\* C16: when a session token and a provider token resolve to the same local
\* user id, the two Users are equal in every field and both carry the payout
\* data.
C16_SchemeIndependent ==
    \A r, q \in Reqs :
        (/\ Returned(r) /\ Res(r).ok /\ BeginsWith(task[r].token, MRA)
         /\ Returned(q) /\ Res(q).ok /\ IsProviderToken(task[q].token)
         /\ Res(r).val.id = Res(q).val.id)
            => (/\ Res(r).val = Res(q).val
                /\ Res(r).val.payout_data.some
                /\ Res(q).val.payout_data.some)
C16_Witness ==
    \E r, q \in Reqs :
        /\ Returned(r) /\ Res(r).ok /\ BeginsWith(task[r].token, MRA)
        /\ Returned(q) /\ Res(q).ok /\ IsProviderToken(task[q].token)
        /\ Res(r).val.id = Res(q).val.id
        /\ Res(r).val.role = "Moderator"

\* C17 (as claimed): resolutions of one valid session token that run
\* concurrently read the same session and the same user row, each succeeds,
\* and all return the same User.
C17_ConcurrentSafe ==
    \A r, q \in Reqs :
        (/\ task[r].pc # "idle" /\ task[q].pc # "idle"
         /\ task[r].token = task[q].token
         /\ ~task[r].failed /\ ~task[q].failed)
            => (/\ (task[r].session.some /\ task[q].session.some)
                      => task[r].session = task[q].session
                /\ (Called(r, "get_session_metadata") /\ Called(q, "get_session_metadata"))
                      => task[r].user = task[q].user
                /\ (ResolvedValid(r)) => Res(r).ok
                /\ (ResolvedValid(r) /\ ResolvedValid(q)) => Res(r) = Res(q))

\* what a provider resolution returns for the adapter's verdict v when the
\* link table and the user store answer: the token does not enter it
ProviderOutcome(v) ==
    IF ~v.some THEN Err(ProviderError)
    ELSE IF ~links[v.val].some THEN Err(InvalidCredentials)
    ELSE IF ~users[links[v.val].val].some THEN Err(InvalidCredentials)
    ELSE Ok(MakeUser(users[links[v.val].val].val))

\* C18: a token with the prefix github, gho or ghp goes to the GitHub
\* adapter, whole (prefix included), never to the session store, and what it
\* resolves to depends on the adapter's verdict, the link table and the user
\* store only, not on which of the three prefixes it carries.
C18_ProviderPrefixes ==
    \A r \in Reqs :
        (/\ task[r].header.some
         /\ IsText(task[r].header.val)
         /\ IsProviderToken(task[r].header.val))
            => (/\ task[r].token = task[r].header.val
                /\ ~Called(r, "Session::get")
                /\ \/ task[r].pc \in {"gh_get_user", "gh_get_user_id", "gh_user_get"}
                   \/ /\ Returned(r)
                      /\ Len(task[r].calls) >= 1
                      /\ task[r].calls[1] = "GitHub::get_user"
                      /\ task[r].verify.some
                /\ (Returned(r) /\ ~task[r].failed)
                      => Res(r) = ProviderOutcome(task[r].verify.val))
C18_Witness ==
    \E r \in Reqs :
        /\ task[r].pc = "returned"
        /\ BeginsWith(task[r].token, GHO)
        /\ Res(r).ok

\* the calls of the session branch in the order of lines 77, 85, 87, 88
SessionOrder ==
    <<"Session::get", "User::get_id", "get_session_metadata", "SessionQueue::add">>

\* C19 (as claimed): the session branch calls the session lookup, the user
\* lookup (after the expiry check), the metadata extraction and the enqueue
\* in this order, and a found, unexpired session whose user row is missing
\* gets exactly one touch before the resolution returns
\* Err(InvalidCredentials).
C19_OrderAndDanglingTouch ==
    \A r \in Reqs :
        /\ BeginsWith(task[r].token, MRA)
              => (/\ Len(task[r].calls) <= Len(SessionOrder)
                  /\ task[r].calls = SubSeq(SessionOrder, 1, Len(task[r].calls))
                  /\ Called(r, "User::get_id") => task[r].now_read.some)
        /\ (/\ Returned(r)
            /\ ValidSession(r)
            /\ Called(r, "User::get_id")
            /\ ~task[r].failed
            /\ ~task[r].user.some)
              => (/\ task[r].calls = SessionOrder
                  /\ Res(r) = Err(InvalidCredentials))
====
